---- MODULE Spec2Model ----
(***************************************************************************)
(* Figure9_PhaseStability/Equilibrate_Calcs.ipynb as a state machine.      *)
(*                                                                         *)
(* The notebook loads a spreadsheet of experiments, replaces every missing *)
(* cell by 0.0, converts the measured oxygen fugacity of every row to a    *)
(* ferric-iron fraction (Thermobar, Kress1991), and then, for each of five *)
(* thermodynamic models in turn, calls PetThermoTools' equilibrate_multi   *)
(* and writes the returned table to a spreadsheet of its own.              *)
(*                                                                         *)
(* Thermobar, PetThermoTools and pandas are not part of the repository:    *)
(*   - the Kress1991 conversion is an uninterpreted row-wise function of   *)
(*     the arguments the notebook passes for that row;                     *)
(*   - equilibrate_multi is an uninterpreted call that either fails or     *)
(*     returns the table "result of call n for model m"; it reads its      *)
(*     arguments and does not assign the notebook's variables;             *)
(*   - pandas' read_excel, fillna, column selection, arithmetic on a       *)
(*     column and ExcelWriter are modelled by what they do.                *)
(* Numeric cells carry their value as an IEEE binary64 number, and the     *)
(* notebook's arithmetic on them (times 10, times 10000.0, plus 273.15) is *)
(* computed with binary64 rounding.  A column also has the dtype read_excel*)
(* infers for it: int64 when every cell is a whole number, float64 when    *)
(* some cell is fractional or missing.  The values of an int64 column are  *)
(* small whole numbers, which binary64 holds exactly; the dtype decides    *)
(* whether 10 ** column can be evaluated.                                  *)
(***************************************************************************)
EXTENDS Integers, Sequences, FiniteSets, TLC

(***************************************************************************)
(* Natural numbers wider than TLC's integers: little-endian sequences of   *)
(* 16-bit limbs.  They carry the 53-bit significands of binary64 values    *)
(* and the exact products and sums that are then rounded.                  *)
(***************************************************************************)
Base == 2 ^ 16

RECURSIVE Trim(_)
Trim(n) ==
    IF n = <<>> THEN <<>>
    ELSE IF n[Len(n)] = 0 THEN Trim(SubSeq(n, 1, Len(n) - 1))
    ELSE n

RECURSIVE Pad(_, _)
Pad(n, len) == IF Len(n) >= len THEN n ELSE Pad(Append(n, 0), len)

RECURSIVE MulCarry(_, _, _)
MulCarry(n, c, carry) ==
    IF n = <<>> THEN (IF carry = 0 THEN <<>> ELSE <<carry>>)
    ELSE LET p == Head(n) * c + carry
         IN  <<p % Base>> \o MulCarry(Tail(n), c, p \div Base)

\* n * c for 0 <= c < 2^15
NatMulSmall(n, c) == Trim(MulCarry(n, c, 0))

RECURSIVE AddCarry(_, _, _)
AddCarry(a, b, carry) ==
    IF a = <<>> /\ b = <<>> THEN (IF carry = 0 THEN <<>> ELSE <<carry>>)
    ELSE LET x == IF a = <<>> THEN 0 ELSE Head(a)
             y == IF b = <<>> THEN 0 ELSE Head(b)
             s == x + y + carry
         IN  <<s % Base>> \o AddCarry(IF a = <<>> THEN <<>> ELSE Tail(a),
                                      IF b = <<>> THEN <<>> ELSE Tail(b),
                                      s \div Base)

NatAdd(a, b) == Trim(AddCarry(a, b, 0))

RECURSIVE LeqFrom(_, _, _)
LeqFrom(a, b, i) ==
    IF i = 0 THEN TRUE
    ELSE IF a[i] # b[i] THEN a[i] < b[i]
    ELSE LeqFrom(a, b, i - 1)

\* a <= b
NatLeq(a, b) ==
    LET x == Trim(a)
        y == Trim(b)
    IN  IF Len(x) # Len(y) THEN Len(x) < Len(y) ELSE LeqFrom(x, y, Len(x))

RECURSIVE BitLen16(_)
BitLen16(v) == IF v = 0 THEN 0 ELSE 1 + BitLen16(v \div 2)

NatBitLen(n) ==
    LET x == Trim(n)
    IN  IF x = <<>> THEN 0 ELSE 16 * (Len(x) - 1) + BitLen16(x[Len(x)])

RECURSIVE Zeros(_)
Zeros(q) == IF q = 0 THEN <<>> ELSE <<0>> \o Zeros(q - 1)

\* n * 2^s
NatShl(n, s) ==
    IF Trim(n) = <<>> THEN <<>>
    ELSE Zeros(s \div 16) \o NatMulSmall(n, 2 ^ (s % 16))

\* floor(n / 2^s)
NatShr(n, s) ==
    LET q == s \div 16
        r == s % 16
        x == IF q >= Len(n) THEN <<>> ELSE SubSeq(n, q + 1, Len(n))
    IN  Trim([i \in 1..Len(x) |->
                (x[i] \div (2 ^ r))
                + (IF i < Len(x) THEN (x[i + 1] % (2 ^ r)) * (2 ^ (16 - r)) ELSE 0)])

\* n mod 2^s
NatLowBits(n, s) ==
    LET q == s \div 16
        r == s % 16
        x == Pad(n, q + 1)
    IN  Trim(SubSeq(x, 1, q) \o <<x[q + 1] % (2 ^ r)>>)

NatIsOdd(n) == n # <<>> /\ n[1] % 2 = 1

\* n / 2^s rounded to the nearest integer, ties to even
NatRoundShr(n, s) ==
    IF s = 0 THEN Trim(n)
    ELSE LET fl   == NatShr(n, s)
             rem  == NatLowBits(n, s)
             half == NatShl(<<1>>, s - 1)
             up   == IF rem = half THEN NatIsOdd(fl) ELSE ~NatLeq(rem, half)
         IN  IF up THEN NatAdd(fl, <<1>>) ELSE fl

(***************************************************************************)
(* Cells.  A cell of a table is missing (NaN), a string, or a binary64     *)
(* number: (-1)^neg * m * 2^e with 2^52 <= m < 2^53 held in four limbs,    *)
(* or zero.                                                                *)
(***************************************************************************)
Precision == 53

NaN == [k |-> "nan"]

Str(s) == [k |-> "str", s |-> s]

F64Zero == [k |-> "f64", neg |-> FALSE, m |-> <<0, 0, 0, 0>>, e |-> 0]

IsNaN(x) == x.k = "nan"

IsF64(x) == x.k = "f64"

IsZero(x) == IsF64(x) /\ Trim(x.m) = <<>>

\* the binary64 nearest to (-1)^neg * n * 2^e  (round to nearest, ties to even)
F64Round(neg, n, e) ==
    LET len == NatBitLen(n)
    IN  IF len = 0 THEN F64Zero
        ELSE IF len <= Precision
             THEN [k |-> "f64", neg |-> neg,
                   m |-> Pad(NatShl(n, Precision - len), 4),
                   e |-> e - (Precision - len)]
        ELSE LET s == len - Precision
                 r == NatRoundShr(n, s)
             IN  IF NatBitLen(r) > Precision
                 THEN [k |-> "f64", neg |-> neg, m |-> Pad(NatShr(r, 1), 4), e |-> e + s + 1]
                 ELSE [k |-> "f64", neg |-> neg, m |-> Pad(r, 4), e |-> e + s]

\* x * c in binary64, c an integer 0 < c < 2^15 (exactly representable)
F64MulInt(x, c) ==
    IF IsNaN(x) THEN NaN ELSE F64Round(x.neg, NatMulSmall(x.m, c), x.e)

Min(a, b) == IF a <= b THEN a ELSE b

\* x + y in binary64, for x >= 0 and y >= 0
F64Add(x, y) ==
    IF IsNaN(x) \/ IsNaN(y) THEN NaN
    ELSE IF IsZero(x) THEN y
    ELSE IF IsZero(y) THEN x
    ELSE LET e0 == Min(x.e, y.e)
         IN  F64Round(FALSE, NatAdd(NatShl(x.m, x.e - e0), NatShl(y.m, y.e - e0)), e0)

\* n * 2^e for a small integer n: the binary64 values with a short binary expansion
F64Dyadic(n, e) == F64Round(n < 0, IF n < 0 THEN <<-n>> ELSE <<n>>, e)

\* the literal 273.15 of the conversion cell: 0x1.1126666666666p+8
KelvinOffset == [k |-> "f64", neg |-> FALSE, m |-> <<26214, 26214, 4710, 17>>, e |-> -44]

\* the factors of the two pressure conversions
GPaToKbar == 10

\* a slip in the factor: GPa to bar taken as 1000
GPaToBar_Thousand == GPaToKbar * 100

GPaToBar == 10000

\* 10**x as numpy evaluates it in binary64, for the exponents the inputs take:
\* 10**-8.0 = 0x1.5798ee2308c3ap-27, 10**-8.5 = 0x1.b29ec0fbe4534p-29, 10**0.0 = 1.0
Pow10(x) ==
    CASE x = F64Dyadic(-8, 0) ->
           [k |-> "f64", neg |-> FALSE, m |-> <<35898, 57904, 31118, 21>>, e |-> -79]
      [] x = F64Dyadic(-17, -1) ->
           [k |-> "f64", neg |-> FALSE, m |-> <<17716, 4030, 10732, 27>>, e |-> -81]
      [] x = F64Zero -> F64Dyadic(1, 0)

\* whether a binary64 value is a whole number
IsIntegerValued(x) == IsZero(x) \/ x.e >= 0 \/ NatLowBits(x.m, -x.e) = <<>>

IsNegative(x) == ~IsZero(x) /\ x.neg

(***************************************************************************)
(* Tables.  A table is a sequence of rows, a row a record of cells keyed   *)
(* by column name; a column (a pandas Series, or the array of its values)  *)
(* is the sequence of its cells in row order.                              *)
(***************************************************************************)
LiqCols ==
    {"SiO2_Liq", "TiO2_Liq", "Al2O3_Liq", "FeOt_Liq", "Cr2O3_Liq", "MnO_Liq",
     "MgO_Liq", "CaO_Liq", "Na2O_Liq", "K2O_Liq", "P2O5_Liq", "H2O_Liq"}

Columns == LiqCols \cup {"Experiment", "Citation", "T_C", "P_GPa", "logfO2"}

\* Data[c]
Col(D, c) == [i \in 1..Len(D) |-> D[i][c]]

\* Data.loc[:, cols]
Loc(D, cols) == [i \in 1..Len(D) |-> [c \in cols |-> D[i][c]]]

\* Data.fillna(0.0): every missing cell of every column becomes 0.0
FillNa(D) ==
    [i \in 1..Len(D) |-> [c \in DOMAIN D[i] |-> IF IsNaN(D[i][c]) THEN F64Zero ELSE D[i][c]]]

\* series * c, series + y and 10 ** series act cell by cell
SeriesMulInt(s, c) == [i \in 1..Len(s) |-> F64MulInt(s[i], c)]

SeriesAdd(s, y) == [i \in 1..Len(s) |-> F64Add(s[i], y)]

\* 10 ** series, for a series of dtype dt: numpy refuses a negative power of an
\* integer ("Integers to negative integer powers are not allowed")
SeriesPow10(s, dt) ==
    IF dt = "int64" /\ \E i \in 1..Len(s) : IsNegative(s[i])
    THEN [raised |-> "ValueError", values |-> <<>>]
    ELSE [raised |-> "", values |-> [i \in 1..Len(s) |-> Pow10(s[i])]]

\* the dtype pd.read_excel gives a column: whole numbers only -> int64, numbers
\* some of them fractional or missing -> float64, anything else -> object
ColDtype(D, c) ==
    IF D = <<>> THEN "object"
    ELSE IF \A i \in 1..Len(D) : IsF64(D[i][c]) /\ IsIntegerValued(D[i][c]) THEN "int64"
    ELSE IF \A i \in 1..Len(D) : IsF64(D[i][c]) \/ IsNaN(D[i][c]) THEN "float64"
    ELSE "object"

\* the dtypes of the columns of a table as read; fillna(0.0) keeps them
Dtypes(D) == [c \in Columns |-> ColDtype(D, c)]

RECURSIVE Reverse(_)
Reverse(s) == IF s = <<>> THEN <<>> ELSE Append(Reverse(Tail(s)), Head(s))

\* a slip that loses the row order: the values taken in another order
AsFloatValues_Reordered(s) == Reverse(s)

\* series.astype(float).values: the cells as a plain array, in row order
AsFloatValues(s) == s

(***************************************************************************)
(* The spreadsheets the notebook may be given.                             *)
(***************************************************************************)
MaxRows == 2

\* the literal 0.09: 0x1.70a3d70a3d70ap-4
P_0_09 == [k |-> "f64", neg |-> FALSE, m |-> <<55050, 28835, 2621, 23>>, e |-> -56]

Pressures == {F64Dyadic(1, 0), P_0_09}

\* an experiment's name and the logfO2 measured in it: -8 and -8.5
Runs == {<<"E1", F64Dyadic(-8, 0)>>, <<"E2", F64Dyadic(-17, -1)>>}

BaseRow ==
    [Experiment |-> Str("E1"), Citation |-> Str("C1"),
     T_C |-> F64Dyadic(1200, 0), P_GPa |-> F64Dyadic(1, 0), logfO2 |-> F64Dyadic(-8, 0),
     SiO2_Liq |-> F64Dyadic(50, 0), TiO2_Liq |-> F64Dyadic(2, 0),
     Al2O3_Liq |-> F64Dyadic(27, -1), FeOt_Liq |-> F64Dyadic(11, 0),
     Cr2O3_Liq |-> F64Dyadic(1, -4), MnO_Liq |-> F64Dyadic(1, -2),
     MgO_Liq |-> F64Dyadic(8, 0), CaO_Liq |-> F64Dyadic(11, 0),
     Na2O_Liq |-> F64Dyadic(5, -1), K2O_Liq |-> F64Dyadic(1, -1),
     P2O5_Liq |-> F64Dyadic(1, -2), H2O_Liq |-> F64Dyadic(1, -1)]

CompleteRows ==
    {[BaseRow EXCEPT !.Experiment = Str(r[1]), !.logfO2 = r[2], !.P_GPa = p] :
        r \in Runs, p \in Pressures}

\* the columns in which the spreadsheets leave a cell empty
GapCols == {"Experiment", "Citation", "T_C", "P_GPa", "Cr2O3_Liq", "H2O_Liq"}

GappyRows == {[BaseRow EXCEPT !.logfO2 = F64Dyadic(-17, -1), ![c] = NaN] : c \in GapCols}

RowSet == CompleteRows \cup GappyRows

RECURSIVE TablesOfLen(_)
TablesOfLen(n) ==
    IF n = 0 THEN {<<>>}
    ELSE {Append(t, r) : t \in TablesOfLen(n - 1), r \in RowSet}

Tables == UNION {TablesOfLen(n) : n \in 0..MaxRows}

(***************************************************************************)
(* The external routines, as far as the notebook sees them.                *)
(***************************************************************************)
\* pt.convert_fo2_to_fe_partition(...)['Fe3Fet_Liq']: row i of the result is the
\* Kress1991 value of row i of the arguments
convert_fo2_to_fe_partition(liq_comps, T_K, P_kbar, fo2, renorm, model) ==
    [i \in 1..Len(liq_comps) |->
        [k |-> "Fe3Fet", model |-> model, renorm |-> renorm, liq |-> liq_comps[i],
         T_K |-> T_K[i], P_kbar |-> P_kbar[i], fo2 |-> fo2[i]]]

\* the table a successful ptt.equilibrate_multi call returns
NoTable == [fn |-> "none", Model |-> "", call |-> 0]

equilibrate_multi(args, n) == [fn |-> "equilibrate_multi", Model |-> args.Model, call |-> n]

(***************************************************************************)
(* The notebook.                                                           *)
(***************************************************************************)
model == <<"MELTSv1.2.0", "MELTSv1.0.2", "pMELTS", "Green2025", "Weller2024">>

NModels == Len(model)

\* a slip that drops the model from the name
FileName_NoModel(m) == "_filt_withfO2_H2O.xlsx"

\* m + '_filt_withfO2_H2O.xlsx'
FileName(m) == m \o "_filt_withfO2_H2O.xlsx"

\* the arguments of the conversion cell
ConvertArgs(D, dt) ==
    [liq_comps |-> Loc(D, LiqCols),
     T_K       |-> SeriesAdd(Col(D, "T_C"), KelvinOffset),
     P_kbar    |-> SeriesMulInt(Col(D, "P_GPa"), GPaToKbar),
     fo2       |-> SeriesPow10(Col(D, "logfO2"), dt.logfO2).values,
     renorm    |-> FALSE,
     model     |-> "Kress1991"]

\* a slip that gives the MAGEMin models their pressure in kbar
EquilibrateArgs_PerEngine(m, D, F) ==
    [Model        |-> m,
     bulk         |-> D,
     T_C          |-> AsFloatValues(Col(D, "T_C")),
     P_bar        |-> SeriesMulInt(AsFloatValues(Col(D, "P_GPa")),
                                   IF m \in {"Green2025", "Weller2024"}
                                   THEN GPaToKbar ELSE GPaToBar),
     Fe3Fet_Liq   |-> AsFloatValues(F),
     copy_columns |-> <<"Experiment", "Citation">>]

\* the arguments of the equilibrate_multi call for model m
EquilibrateArgs(m, D, F) ==
    [Model        |-> m,
     bulk         |-> D,
     T_C          |-> AsFloatValues(Col(D, "T_C")),
     P_bar        |-> SeriesMulInt(AsFloatValues(Col(D, "P_GPa")), GPaToBar),
     Fe3Fet_Liq   |-> AsFloatValues(F),
     copy_columns |-> <<"Experiment", "Citation">>]

NoWriter == [path |-> "", sheets |-> <<>>, open |-> FALSE]

VARIABLES
    xlsx,        \* the rows of df_for_MELTS_H2O_fo2.xlsx
    Data,        \* the notebook's table
    dtype,       \* the dtype of each of its columns
    error,       \* the exception that ended the run, if one did
    Fe3Fet_Liq,  \* the notebook's ferric-iron fraction column
    Combined,    \* the table the last equilibrate_multi call returned
    writer,      \* the ExcelWriter of the with block
    files,       \* the spreadsheets written: path -> sheets and number of writes
    pc,          \* the statement the notebook is at
    mi,          \* the position of the for loop in the list of models
    convCalls,   \* the argument records of the conversion calls made
    calls,       \* the argument records of the equilibrate_multi calls made
    status       \* per model: pending, calculating, returned, failed or written

vars == <<xlsx, Data, dtype, error, Fe3Fet_Liq, Combined, writer, files, pc, mi, convCalls, calls, status>>

Init ==
    /\ xlsx \in Tables
    /\ Data = <<>>
    /\ dtype = Dtypes(<<>>)
    /\ error = ""
    /\ Fe3Fet_Liq = <<>>
    /\ Combined = NoTable
    /\ writer = NoWriter
    /\ files = <<>>
    /\ pc = "load"
    /\ mi = 1
    /\ convCalls = <<>>
    /\ calls = <<>>
    /\ status = [i \in 1..NModels |-> "pending"]

\* Data = pd.read_excel(...); Data = Data.fillna(0.0)
LoadData ==
    /\ pc = "load"
    /\ Data' = FillNa(xlsx)
    /\ dtype' = Dtypes(xlsx)
    /\ pc' = "convert"
    /\ UNCHANGED <<xlsx, error, Fe3Fet_Liq, Combined, writer, files, mi, convCalls, calls, status>>

\* whether evaluating the arguments of the conversion call raises
ConvertArgsRaise == SeriesPow10(Col(Data, "logfO2"), dtype.logfO2).raised

\* Fe3Fet_Liq = pt.convert_fo2_to_fe_partition(...)['Fe3Fet_Liq']
ConvertFo2 ==
    /\ pc = "convert"
    /\ ConvertArgsRaise = ""
    /\ LET a == ConvertArgs(Data, dtype)
       IN  /\ convCalls' = Append(convCalls, a)
           /\ Fe3Fet_Liq' = convert_fo2_to_fe_partition(a.liq_comps, a.T_K, a.P_kbar,
                                                        a.fo2, a.renorm, a.model)
    /\ pc' = "for"
    /\ UNCHANGED <<xlsx, dtype, error, Data, Combined, writer, files, mi, calls, status>>

\* 10**Data['logfO2'] raises on an int64 column with a negative value: the
\* conversion is never called, Fe3Fet_Liq stays unbound and the run ends
ConvertArgsFail ==
    /\ pc = "convert"
    /\ ConvertArgsRaise # ""
    /\ error' = ConvertArgsRaise
    /\ pc' = "raised"
    /\ UNCHANGED <<xlsx, dtype, Data, Fe3Fet_Liq, Combined, writer, files, mi, convCalls,
                   calls, status>>

\* the conversion call itself raises: nothing catches it, the run ends
ConvertFail ==
    /\ pc = "convert"
    /\ ConvertArgsRaise = ""
    /\ convCalls' = Append(convCalls, ConvertArgs(Data, dtype))
    /\ error' = "convert_fo2_to_fe_partition"
    /\ pc' = "raised"
    /\ UNCHANGED <<xlsx, dtype, Data, Fe3Fet_Liq, Combined, writer, files, mi, calls, status>>

\* for m in model: ptt.equilibrate_multi(...) is entered
EquilibrateStart ==
    /\ pc = "for"
    /\ mi <= NModels
    /\ calls' = Append(calls, EquilibrateArgs(model[mi], Data, Fe3Fet_Liq))
    /\ status' = [status EXCEPT ![mi] = "calculating"]
    /\ pc' = "call"
    /\ UNCHANGED <<xlsx, dtype, error, Data, Fe3Fet_Liq, Combined, writer, files, mi, convCalls>>

\* a slip in the indentation: the with block after the loop instead of in it
EquilibrateReturn_WriteAfterLoop ==
    /\ pc = "call"
    /\ Combined' = equilibrate_multi(calls[Len(calls)], Len(calls))
    /\ status' = [status EXCEPT ![mi] = "returned"]
    /\ IF mi < NModels THEN mi' = mi + 1 /\ pc' = "for" ELSE mi' = mi /\ pc' = "open"
    /\ UNCHANGED <<xlsx, dtype, error, Data, Fe3Fet_Liq, writer, files, convCalls, calls>>

\* the call returns: Combined = ...
EquilibrateReturn ==
    /\ pc = "call"
    /\ Combined' = equilibrate_multi(calls[Len(calls)], Len(calls))
    /\ status' = [status EXCEPT ![mi] = "returned"]
    /\ pc' = "open"
    /\ UNCHANGED <<xlsx, dtype, error, Data, Fe3Fet_Liq, writer, files, mi, convCalls, calls>>

\* a loop that catches the failure and goes on to the next model
EquilibrateFail_Swallowed ==
    /\ pc = "call"
    /\ status' = [status EXCEPT ![mi] = "failed"]
    /\ mi' = mi + 1
    /\ pc' = IF mi < NModels THEN "for" ELSE "done"
    /\ UNCHANGED <<xlsx, dtype, error, Data, Fe3Fet_Liq, Combined, writer, files, convCalls, calls>>

\* the call raises: nothing catches it, the cell ends
EquilibrateFail ==
    /\ pc = "call"
    /\ status' = [status EXCEPT ![mi] = "failed"]
    /\ error' = "equilibrate_multi"
    /\ pc' = "raised"
    /\ UNCHANGED <<xlsx, dtype, Data, Fe3Fet_Liq, Combined, writer, files, mi, convCalls, calls>>

\* with pd.ExcelWriter(m + '_filt_withfO2_H2O.xlsx', engine='xlsxwriter') as writer:
OpenWriter ==
    /\ pc = "open"
    /\ writer' = [path |-> FileName(model[mi]), sheets |-> <<>>, open |-> TRUE]
    /\ pc' = "to_excel"
    /\ UNCHANGED <<xlsx, dtype, error, Data, Fe3Fet_Liq, Combined, files, mi, convCalls, calls, status>>

\* Combined.to_excel(writer, sheet_name='All Data', index=False)
ToExcel ==
    /\ pc = "to_excel"
    /\ writer' = [writer EXCEPT
                    !.sheets = Append(@, [sheet_name |-> "All Data", table |-> Combined])]
    /\ pc' = "close"
    /\ UNCHANGED <<xlsx, dtype, error, Data, Fe3Fet_Liq, Combined, files, mi, convCalls, calls, status>>

\* the with block ends: the workbook is saved under its path and closed, and the
\* loop goes on to the next model or ends
CloseWriter ==
    /\ pc = "close"
    /\ files' = [p \in DOMAIN files \cup {writer.path} |->
                   IF p = writer.path
                   THEN [sheets |-> writer.sheets,
                         writes |-> IF p \in DOMAIN files THEN files[p].writes + 1 ELSE 1]
                   ELSE files[p]]
    /\ writer' = NoWriter
    /\ status' = [status EXCEPT ![mi] = "written"]
    /\ mi' = mi + 1
    /\ pc' = IF mi < NModels THEN "for" ELSE "done"
    /\ UNCHANGED <<xlsx, dtype, error, Data, Fe3Fet_Liq, Combined, convCalls, calls>>

Next ==
    \/ LoadData
    \/ ConvertFo2
    \/ ConvertArgsFail
    \/ ConvertFail
    \/ EquilibrateStart
    \/ EquilibrateReturn
    \/ EquilibrateFail
    \/ OpenWriter
    \/ ToExcel
    \/ CloseWriter

Spec == Init /\ [][Next]_vars

(***************************************************************************)
(* Properties of the model loop and of the files it writes.                *)
(***************************************************************************)
\* the sheet list of a workbook that holds exactly the result of the i-th model
OnlyResultOf(i) ==
    <<[sheet_name |-> "All Data",
       table |-> [fn |-> "equilibrate_multi", Model |-> model[i], call |-> i]]>>

\* C3: when the loop has run to completion, the files written are exactly the five
\* named <model>_filt_withfO2_H2O.xlsx, the five names are pairwise distinct, each
\* file was written exactly once, and each holds exactly one sheet, 'All Data',
\* with the table returned for its own model.
C3_OneFilePerModel ==
    pc = "done" =>
        /\ model = <<"MELTSv1.2.0", "MELTSv1.0.2", "pMELTS", "Green2025", "Weller2024">>
        /\ DOMAIN files = {model[i] \o "_filt_withfO2_H2O.xlsx" : i \in 1..5}
        /\ Cardinality(DOMAIN files) = 5
        /\ \A i \in 1..5 :
              /\ files[model[i] \o "_filt_withfO2_H2O.xlsx"].writes = 1
              /\ files[model[i] \o "_filt_withfO2_H2O.xlsx"].sheets = OnlyResultOf(i)

\* the loop has completed on a spreadsheet of two experiments
C3_Witness == pc = "done" /\ Len(xlsx) = 2 /\ Cardinality(DOMAIN files) = 5

\* C6: the models are processed one at a time in list order: the calls made so far
\* are those of the first models of the list in order, at most one model is between
\* the start of its call and the closing of its file, no file is open while a call
\* runs, and a model's call has started only if every earlier model's call has
\* returned and its file has been written and closed.
C6_OneModelAtATime ==
    /\ \A j \in DOMAIN calls : calls[j].Model = model[j]
    /\ Cardinality({i \in 1..NModels : status[i] \in {"calculating", "returned"}}) <= 1
    /\ (\E i \in 1..NModels : status[i] = "calculating") => ~writer.open
    /\ \A i \in 1..NModels :
          status[i] # "pending" =>
              \A j \in 1..(i - 1) :
                  /\ status[j] = "written"
                  /\ FileName(model[j]) \in DOMAIN files
                  /\ writer.path # FileName(model[j])

\* the call for the second model is running
C6_Witness == status[2] = "calculating" /\ status[1] = "written" /\ Len(xlsx) > 0

\* C7: when the call for the k-th model fails, the notebook has stopped with the
\* failure: every model up to k was called exactly once (no retry), there is no
\* file for model k, no later model was called or has a file, the files of the
\* earlier models are as they were written, and nothing runs afterwards.
C7_FailurePropagates ==
    \A k \in 1..NModels :
        status[k] = "failed" =>
            /\ pc = "raised"
            /\ ~ENABLED Next
            /\ Len(calls) = k
            /\ \A j \in 1..k : calls[j].Model = model[j]
            /\ ~writer.open
            /\ FileName(model[k]) \notin DOMAIN files
            /\ \A j \in (k + 1)..NModels :
                  status[j] = "pending" /\ FileName(model[j]) \notin DOMAIN files
            /\ \A j \in 1..(k - 1) :
                  /\ status[j] = "written"
                  /\ FileName(model[j]) \in DOMAIN files
                  /\ files[FileName(model[j])] = [sheets |-> OnlyResultOf(j), writes |-> 1]

\* the call for the third model has failed
C7_Witness == status[3] = "failed" /\ Cardinality(DOMAIN files) = 2

(***************************************************************************)
(* Properties of the data handed to the external routines.                 *)
(***************************************************************************)
\* columns in which 0.0 is not a physically valid stand-in for a missing value
NoZeroDefaultCols == {"T_C", "P_GPa", "logfO2", "Experiment", "Citation"}

\* C4: after the load-and-clean step, no cell of a column in which zero is not a
\* valid default (T_C, P_GPa, logfO2, the identifier columns) that was missing in
\* the spreadsheet is 0.0 in the table.
C4_NoZeroFillWhereInvalid ==
    pc # "load" =>
        \A i \in 1..Len(Data) : \A c \in NoZeroDefaultCols :
            IsNaN(xlsx[i][c]) => ~IsZero(Data[i][c])

\* C8: every equilibrate_multi call gets the same inputs: the table is the
\* zero-filled spreadsheet, still the notebook's table; the conversion ran once,
\* before the loop, and its result is still the notebook's column; and the bulk,
\* T_C, P_bar and Fe3Fet_Liq arguments of every call equal those of the first.
C8_IdenticalInputs ==
    /\ Len(convCalls) <= 1
    /\ calls # <<>> =>
          /\ Len(convCalls) = 1
          /\ convCalls[1] = ConvertArgs(FillNa(xlsx), Dtypes(xlsx))
    /\ \A j \in DOMAIN calls :
          /\ calls[j].bulk = FillNa(xlsx)
          /\ calls[j].bulk = Data
          /\ calls[j].Fe3Fet_Liq = Fe3Fet_Liq
          /\ calls[j].bulk = calls[1].bulk
          /\ calls[j].T_C = calls[1].T_C
          /\ calls[j].P_bar = calls[1].P_bar
          /\ calls[j].Fe3Fet_Liq = calls[1].Fe3Fet_Liq

\* all five calls have been made on a spreadsheet with a row whose pressure is not 0
C8_Witness ==
    /\ Len(calls) = NModels
    /\ \E i \in 1..Len(xlsx) : ~IsNaN(xlsx[i].P_GPa)

\* the Kress1991 value of one row of the table
KressOfRow(r) ==
    [k |-> "Fe3Fet", model |-> "Kress1991", renorm |-> FALSE,
     liq |-> [c \in LiqCols |-> r[c]],
     T_K |-> F64Add(r.T_C, KelvinOffset),
     P_kbar |-> F64MulInt(r.P_GPa, 10),
     fo2 |-> Pow10(r.logfO2)]

\* C9: in every equilibrate_multi call the arrays are as long as the table, and at
\* every position i the temperature and pressure are those of row i of the bulk
\* table and the ferric-iron fraction is the one computed from row i's own
\* composition, T_C, P_GPa and logfO2.
C9_RowAligned ==
    \A j \in DOMAIN calls :
        LET c == calls[j]
            n == Len(c.bulk)
        IN  /\ c.bulk = FillNa(xlsx)
            /\ Len(c.T_C) = n /\ Len(c.P_bar) = n /\ Len(c.Fe3Fet_Liq) = n
            /\ \A i \in 1..n :
                  /\ c.T_C[i] = c.bulk[i].T_C
                  /\ c.P_bar[i] = F64MulInt(c.bulk[i].P_GPa, 10000)
                  /\ c.Fe3Fet_Liq[i] = KressOfRow(c.bulk[i])

\* a call on a table of two rows that differ in temperature, pressure and fraction
C9_Witness ==
    \E j \in DOMAIN calls :
        /\ Len(calls[j].bulk) = 2
        /\ calls[j].T_C[1] # calls[j].T_C[2]
        /\ calls[j].P_bar[1] # calls[j].P_bar[2]
        /\ calls[j].Fe3Fet_Liq[1] # calls[j].Fe3Fet_Liq[2]

\* c * x = y as real numbers, for binary64 x >= 0 and y >= 0
ExactTimes(x, c, y) ==
    IF IsZero(x) \/ IsZero(y) THEN IsZero(x) /\ IsZero(y)
    ELSE LET e0 == Min(x.e, y.e)
         IN  Trim(NatShl(NatMulSmall(x.m, c), x.e - e0)) = Trim(NatShl(y.m, y.e - e0))

\* |c * x - y| <= u * 2^y.e: c * x is within u units in the last place of y
WithinUlps(x, c, y, u) ==
    IF IsZero(x) \/ IsZero(y) THEN IsZero(x) /\ IsZero(y)
    ELSE LET e0 == Min(x.e, y.e)
             a  == NatShl(NatMulSmall(x.m, c), x.e - e0)
             b  == NatShl(y.m, y.e - e0)
             d  == NatShl(<<u>>, y.e - e0)
         IN  NatLeq(a, NatAdd(b, d)) /\ NatLeq(b, NatAdd(a, d))

\* every row's unit conversions, in the conversion call and in every
\* equilibrate_multi call: P_GPa*10, T_C+273.15 and 10**logfO2 for the one,
\* P_GPa*10000 and the unconverted T_C for the other
UnitsOfEveryRow ==
    /\ calls # <<>> => Len(convCalls) = 1
    /\ \A j \in DOMAIN calls : \A i \in 1..Len(Data) :
          /\ convCalls[1].P_kbar[i] = F64MulInt(Data[i].P_GPa, 10)
          /\ calls[j].P_bar[i] = F64MulInt(Data[i].P_GPa, 10000)
          /\ convCalls[1].T_K[i] = F64Add(Data[i].T_C, KelvinOffset)
          /\ calls[j].T_C[i] = Data[i].T_C
          /\ convCalls[1].fo2[i] = Pow10(Data[i].logfO2)

\* C10 as stated: for every row the conversion gets P_GPa*10 and T_C+273.15 and
\* 10**logfO2, the equilibration gets P_GPa*10000 and the unconverted T_C, and the
\* equilibration pressure is exactly 1000 times the conversion pressure.
C10_ExactlyThousandfold ==
    /\ UnitsOfEveryRow
    /\ \A j \in DOMAIN calls : \A i \in 1..Len(Data) :
          ExactTimes(convCalls[1].P_kbar[i], 1000, calls[j].P_bar[i])

\* C10 as amended: as above, but the equilibration pressure is 1000 times the
\* conversion pressure only up to binary64 rounding: the two products are rounded
\* separately, and differ by at most 2 units in the last place of the
\* equilibration pressure.
C10_ThousandfoldUpToRounding ==
    /\ UnitsOfEveryRow
    /\ \A j \in DOMAIN calls : \A i \in 1..Len(Data) :
          WithinUlps(convCalls[1].P_kbar[i], 1000, calls[j].P_bar[i], 2)

\* a call on a row whose two pressures are not exactly a factor 1000 apart
C10_Witness ==
    \E j \in DOMAIN calls : \E i \in 1..Len(Data) :
        /\ ~IsZero(calls[j].P_bar[i])
        /\ ~ExactTimes(convCalls[1].P_kbar[i], 1000, calls[j].P_bar[i])

====
